---- MODULE Spec2Model ----
(***************************************************************************)
(* StringScanner (src/lib.rs): a scan pointer over an immutable string,    *)
(* advanced by regular-expression matches against the unconsumed suffix.   *)
(*                                                                         *)
(* Text is a sequence of one-character strings.  A call that panics        *)
(* (a slice out of range, an arithmetic underflow) returns Panic and the   *)
(* behaviour stops there.                                                  *)
(***************************************************************************)
EXTENDS Integers, Sequences, FiniteSets

VARIABLES
    s,         \* the StringScanner: [string, position, matched]
    before,    \* the StringScanner as it was when the last call was entered
    op,        \* the last method called
    pattern,   \* the pattern argument of the last call (<< >> if none)
    arg,       \* the position argument of the last call (0 if none)
    result,    \* what the last call returned
    sub,       \* the scanner a caller derived with subscan and kept, if any
    on         \* the scanner the last call was made on: "s" or "sub"

vars == <<s, before, op, pattern, arg, result, sub, on>>

----------------------------------------------------------------------------
(* Bounds *)

MaxLen == 3      \* longest input string
MaxOver == 1     \* how far past the end of the string set_position is tried

LF == "\n"
Char == {"a", "b", LF}

Strings == UNION {[1..n -> Char] : n \in 0..MaxLen}

\* The patterns the scanner is driven with: "", a, b, ^a, ., .*, a*
Patterns ==
    { << >>, <<"a">>, <<"b">>, <<"^", "a">>,
      <<".">>, <<".", "*">>, <<"a", "*">> }

----------------------------------------------------------------------------
(* Option<T> and the panic outcome *)

None == [tag |-> "None"]
Some(v) == [tag |-> "Some", val |-> v]
Panic == [tag |-> "Panic"]
Unit == [tag |-> "Unit"]
Value(v) == [tag |-> "Value", val |-> v]

\* &text[from..to], with offsets counted from 0 as in the source
Slice(text, from, to) == SubSeq(text, from + 1, to)

\* usize::MAX.  The width is that of a 16-bit target: the model checker's
\* integers cannot hold the 64-bit value, and the scanner only compares the
\* wrapped offset with string lengths, all far below either.
usize_MAX == 65535

\* a - b on usize: with overflow checks (a debug build) an underflow
\* panics, without them (a release build) it wraps.
sub_usize(a, b, overflow_checks) ==
    IF a >= b THEN Value(a - b)
    ELSE IF overflow_checks THEN Panic
    ELSE Value((a - b) % (usize_MAX + 1))

Max(S) == CHOOSE x \in S : \A y \in S : y <= x
Min(S) == CHOOSE x \in S : \A y \in S : x <= y

----------------------------------------------------------------------------
(* The regex crate, as far as the patterns above use it *)

\* The atoms of a pattern body from index i on: a character or ".",
\* optionally followed by "*".  "." matches any character but the line feed.
RECURSIVE Atoms(_, _)
Atoms(body, i) ==
    IF i > Len(body) THEN << >>
    ELSE LET star == i + 1 <= Len(body) /\ body[i + 1] = "*"
             set  == IF body[i] = "." THEN Char \ {LF} ELSE {body[i]}
         IN  <<[set |-> set, star |-> star]>>
                 \o Atoms(body, IF star THEN i + 2 ELSE i + 1)

\* regex::Regex::new(pattern).unwrap()
Regex(pat) ==
    LET anchor == Len(pat) > 0 /\ pat[1] = "^"
    IN  [anchor |-> anchor,
         atoms  |-> Atoms(IF anchor THEN Tail(pat) ELSE pat, 1)]

\* The length of the longest run of characters of set in h from offset k
Run(set, h, k) ==
    Max({n \in 0..(Len(h) - k) : \A j \in 1..n : h[k + j] \in set})

\* The end offset of the match of atoms[i..] that starts at offset k of h,
\* greedy repetitions tried longest first; -1 if there is none.
RECURSIVE MatchAt(_, _, _, _)
MatchAt(atoms, i, h, k) ==
    IF i > Len(atoms) THEN k
    ELSE LET a == atoms[i] IN
         IF a.star
         THEN LET ok == {j \in 0..Run(a.set, h, k) :
                            MatchAt(atoms, i + 1, h, k + j) # -1}
              IN  IF ok = {} THEN -1
                  ELSE MatchAt(atoms, i + 1, h, k + Max(ok))
         ELSE IF k < Len(h) /\ h[k + 1] \in a.set
              THEN MatchAt(atoms, i + 1, h, k + 1)
              ELSE -1

\* regex.captures(haystack): the leftmost match in haystack, with offsets
\* relative to haystack; "^" matches at offset 0 of haystack only.
captures(regex, haystack) ==
    LET starts == {k \in 0..(IF regex.anchor THEN 0 ELSE Len(haystack)) :
                      MatchAt(regex.atoms, 1, haystack, k) # -1}
    IN  IF starts = {} THEN None
        ELSE LET k == Min(starts)
             IN  Some([haystack |-> haystack,
                       start    |-> k,
                       end      |-> MatchAt(regex.atoms, 1, haystack, k)])

\* cap.full_match(): group 0 of the captures
full_match(cap) == [start |-> cap.start, end |-> cap.end,
                    as_str |-> Slice(cap.haystack, cap.start, cap.end)]

----------------------------------------------------------------------------
(* StringScanner *)

new(str) == [string |-> str, position |-> 0, matched |-> None]

\* &self.string[self.position..] is in range
InRange(self) == self.position <= Len(self.string)

window(self) == Slice(self.string, self.position, Len(self.string))

Returns(self, ret) == [self |-> self, ret |-> ret]

\* check with the return value of check_until
check_returning_prefix(self, pat) ==
    IF ~InRange(self) THEN Returns(self, Panic)
    ELSE LET m     == captures(Regex(pat), window(self))
             self1 == [self EXCEPT !.matched = m]
         IN  Returns(self1,
                     IF m = None THEN None
                     ELSE Some(Slice(window(self), 0, full_match(m.val).end)))

check(self, pat) ==
    IF ~InRange(self) THEN Returns(self, Panic)
    ELSE LET m     == captures(Regex(pat), window(self))
             self1 == [self EXCEPT !.matched = m]
         IN  Returns(self1,
                     IF m = None THEN None
                     ELSE Some(full_match(m.val).as_str))

\* check_until that moves the position to the end of the match
check_until_advancing(self, pat) ==
    IF ~InRange(self) THEN Returns(self, Panic)
    ELSE LET m     == captures(Regex(pat), window(self))
             self1 == [self EXCEPT !.matched = m]
         IN  IF m = None THEN Returns(self1, None)
             ELSE LET info == full_match(m.val)
                  IN  Returns([self1 EXCEPT !.position =
                                   self.position + info.end],
                              IF self.position > info.end THEN Panic
                              ELSE Some(Slice(self.string, self.position,
                                              info.end)))

check_until(self, pat) ==
    IF ~InRange(self) THEN Returns(self, Panic)
    ELSE LET m     == captures(Regex(pat), window(self))
             self1 == [self EXCEPT !.matched = m]
         IN  Returns(self1,
                     IF m = None THEN None
                     ELSE LET info == full_match(m.val)
                          IN  IF self.position > info.end THEN Panic
                              ELSE Some(Slice(self.string, self.position,
                                              info.end)))

\* set_position that keeps the match when the position does not change
set_position_if_moved(self, position) ==
    IF position = self.position THEN Returns(self, Unit)
    ELSE Returns([self EXCEPT !.position = position, !.matched = None],
                 Unit)

set_position(self, position) ==
    Returns([self EXCEPT !.position = position, !.matched = None], Unit)

\* scan that takes an empty match for no match
scan_refusing_empty(self, pat) ==
    IF ~InRange(self) THEN Returns(self, Panic)
    ELSE LET c     == captures(Regex(pat), window(self))
             m     == IF c # None /\ c.val.start = c.val.end THEN None
                      ELSE c
             self1 == [self EXCEPT !.matched = m]
             self2 == IF m = None THEN self1
                      ELSE [self1 EXCEPT !.position =
                                self.position + full_match(m.val).end]
         IN  Returns(self2,
                     IF m = None THEN None
                     ELSE Some(full_match(m.val).as_str))

\* scan that searches the whole string from the position on, so that "^"
\* stands for offset 0 of the string
scan_caret_at_string_start(self, pat) ==
    IF ~InRange(self) THEN Returns(self, Panic)
    ELSE LET c     == captures(Regex(pat), window(self))
             m     == IF Regex(pat).anchor /\ self.position > 0 THEN None
                      ELSE c
             self1 == [self EXCEPT !.matched = m]
             self2 == IF m = None THEN self1
                      ELSE [self1 EXCEPT !.position =
                                self.position + full_match(m.val).end]
         IN  Returns(self2,
                     IF m = None THEN None
                     ELSE Some(full_match(m.val).as_str))

\* scan that records a match only when there is one
scan_keeping_match(self, pat) ==
    IF ~InRange(self) THEN Returns(self, Panic)
    ELSE LET m     == captures(Regex(pat), window(self))
         IN  IF m = None THEN Returns(self, None)
             ELSE Returns([self EXCEPT !.matched = m,
                                       !.position =
                                           self.position
                                               + full_match(m.val).end],
                          Some(full_match(m.val).as_str))

scan(self, pat) ==
    IF ~InRange(self) THEN Returns(self, Panic)
    ELSE LET m     == captures(Regex(pat), window(self))
             self1 == [self EXCEPT !.matched = m]
             self2 == IF m = None THEN self1
                      ELSE [self1 EXCEPT !.position =
                                self.position + full_match(m.val).end]
         IN  Returns(self2,
                     IF m = None THEN None
                     ELSE Some(full_match(m.val).as_str))

\* scan_until that assigns the window-relative end to the position
scan_until_assigning(self, pat) ==
    IF ~InRange(self) THEN Returns(self, Panic)
    ELSE LET m     == captures(Regex(pat), window(self))
             self1 == [self EXCEPT !.matched = m]
         IN  IF m = None THEN Returns(self1, None)
             ELSE LET info == full_match(m.val)
                  IN  Returns([self1 EXCEPT !.position = info.end],
                              Some(Slice(self.string, self.position,
                                         self.position + info.end)))

scan_until(self, pat) ==
    IF ~InRange(self) THEN Returns(self, Panic)
    ELSE LET m     == captures(Regex(pat), window(self))
             self1 == [self EXCEPT !.matched = m]
         IN  IF m = None THEN Returns(self1, None)
             ELSE LET info == full_match(m.val)
                  IN  Returns([self1 EXCEPT !.position =
                                   self.position + info.end],
                              Some(Slice(self.string, self.position,
                                         self.position + info.end)))

\* getch that does not consume the character
getch_peeking(self) == check(self, <<".">>)

getch(self) == scan(self, <<".">>)

\* terminate that moves to the length of the string
terminate_at_length(self, overflow_checks) ==
    set_position(self, Len(self.string))

terminate(self, overflow_checks) ==
    LET last == sub_usize(Len(self.string), 1, overflow_checks)
    IN  IF last = Panic THEN Returns(self, Panic)
        ELSE set_position(self, last.val)

eos(self, overflow_checks) ==
    LET last == sub_usize(Len(self.string), 1, overflow_checks)
    IN  IF last = Panic THEN Panic
        ELSE Value(self.position = last.val)

matched(self) ==
    IF self.matched = None THEN None
    ELSE Some(full_match(self.matched.val).as_str)

\* self.position - matched.as_str().len() underflows when the match is
\* longer than the position: a panic in a debug build, and in a release
\* build a wrapped offset far past the end of the string, so a panic of
\* the slice.
pre_match(self) ==
    IF self.matched = None THEN None
    ELSE LET len == Len(full_match(self.matched.val).as_str)
         IN  IF self.position < len THEN Panic
             ELSE IF self.position - len > Len(self.string) THEN Panic
             ELSE Some(Slice(self.string, 0, self.position - len))

post_match(self) ==
    IF self.matched = None THEN None
    ELSE IF ~InRange(self) THEN Panic
    ELSE Some(window(self))

\* subscan that hands the position on to the new scanner
subscan_keeping_position(self) ==
    IF ~InRange(self) THEN Panic
    ELSE Value([string   |-> window(self),
                position |-> self.position,
                matched  |-> None])

subscan(self) ==
    IF ~InRange(self) THEN Panic
    ELSE Value([string   |-> window(self),
                position |-> 0,
                matched  |-> None])

\* beginning_of_line that looks at the character at the position
beginning_of_line_at_position(self) ==
    IF self.position = 0 THEN Value(TRUE)
    ELSE IF self.position + 1 > Len(self.string) THEN Panic
    ELSE Value(Slice(self.string, self.position, self.position + 1)
                   = <<LF>>)

\* The slice &self.string[self.position - 1..self.position] is evaluated
\* only when position is not 0, and panics past the end of the string.
beginning_of_line(self) ==
    IF self.position = 0 THEN Value(TRUE)
    ELSE IF ~InRange(self) THEN Panic
    ELSE Value(Slice(self.string, self.position - 1, self.position)
                   = <<LF>>)

bol(self) == beginning_of_line(self)

----------------------------------------------------------------------------
(* The state machine: one scanner, driven by any sequence of calls *)

Init ==
    /\ \E str \in Strings : s = new(str) /\ before = new(str)
    /\ op = "new"
    /\ pattern = << >>
    /\ arg = 0
    /\ result = Unit
    /\ sub = None
    /\ on = "s"

Running == result # Panic

\* A call of method name with the outcome r
Call(name, pat, n, r) ==
    /\ Running
    /\ before' = s
    /\ op' = name
    /\ pattern' = pat
    /\ arg' = n
    /\ s' = r.self
    /\ result' = r.ret
    /\ sub' = sub
    /\ on' = "s"

\* A call of a query (&self)
Query(name, ret) == Call(name, << >>, 0, Returns(s, ret))

Check == \E pat \in Patterns : Call("check", pat, 0, check(s, pat))

CheckUntil ==
    \E pat \in Patterns : Call("check_until", pat, 0, check_until(s, pat))

SetPosition ==
    \E p \in 0..(Len(s.string) + MaxOver) :
        Call("set_position", << >>, p, set_position(s, p))

Scan == \E pat \in Patterns : Call("scan", pat, 0, scan(s, pat))

ScanUntil ==
    \E pat \in Patterns : Call("scan_until", pat, 0, scan_until(s, pat))

Getch == Call("getch", << >>, 0, getch(s))

\* Whether the build checks arithmetic overflow is not known to the
\* scanner: a call is taken under either setting.
Terminate ==
    \E overflow_checks \in BOOLEAN :
        Call("terminate", << >>, 0, terminate(s, overflow_checks))

Eos == \E overflow_checks \in BOOLEAN : Query("eos", eos(s, overflow_checks))

BeginningOfLine == Query("beginning_of_line", beginning_of_line(s))

Bol == Query("bol", bol(s))

Subscan == Query("subscan", subscan(s))

Matched == Query("matched", matched(s))

PreMatch == Query("pre_match", pre_match(s))

PostMatch == Query("post_match", post_match(s))

Next ==
    \/ Check
    \/ CheckUntil
    \/ SetPosition
    \/ Scan
    \/ ScanUntil
    \/ Getch
    \/ Terminate
    \/ Eos
    \/ BeginningOfLine
    \/ Bol
    \/ Subscan
    \/ Matched
    \/ PreMatch
    \/ PostMatch

Spec == Init /\ [][Next]_vars

----------------------------------------------------------------------------
(* A scanner and a scanner derived from it, each driven by its own calls *)

\* subscan, whose caller keeps the scanner it returns
KeepSubscan ==
    /\ Running
    /\ before' = s
    /\ op' = "subscan"
    /\ pattern' = << >>
    /\ arg' = 0
    /\ s' = s
    /\ result' = subscan(s)
    /\ sub' = IF subscan(s) = Panic THEN sub ELSE subscan(s)
    /\ on' = "s"

\* A call of method name on the derived scanner, with the outcome r
SubCall(name, pat, n, r) ==
    /\ Running
    /\ sub # None
    /\ before' = sub.val
    /\ op' = name
    /\ pattern' = pat
    /\ arg' = n
    /\ s' = s
    /\ result' = r.ret
    /\ sub' = Value(r.self)
    /\ on' = "sub"

SubSetPosition ==
    /\ sub # None
    /\ \E p \in 0..(Len(sub.val.string) + MaxOver) :
           SubCall("set_position", << >>, p, set_position(sub.val, p))

SubGetch == SubCall("getch", << >>, 0, getch(sub.val))

SubTerminate ==
    \E overflow_checks \in BOOLEAN :
        SubCall("terminate", << >>, 0, terminate(sub.val, overflow_checks))

\* Both scanners are moved by getch, set_position and terminate; the
\* pattern-taking methods, which touch the same two fields, are left to Spec.
SubNext ==
    \/ SetPosition
    \/ Getch
    \/ Terminate
    \/ KeepSubscan
    \/ SubSetPosition
    \/ SubGetch
    \/ SubTerminate

SubSpec == Init /\ [][SubNext]_vars

----------------------------------------------------------------------------
(* Vocabulary of the properties *)

MatchOps == {"scan", "scan_until", "check", "check_until"}

\* The leftmost match of the last call's pattern in the window the call
\* was entered with (None if there is none)
Leftmost == captures(Regex(pattern), window(before))

\* The offset in the whole string at which the haystack of cap starts
Base(self, cap) == Len(self.string) - Len(cap.haystack)

\* An error return of kind e
Err(e) == [tag |-> "Err", err |-> e]

Absent(self) ==
    /\ matched(self) = None
    /\ pre_match(self) = None
    /\ post_match(self) = None

----------------------------------------------------------------------------
\* C1: when the leftmost match of the pattern in the window starts after
\* offset 0 of the window, scan returns absent and leaves the position
\* unchanged, while scan_until from the same state succeeds.
C1_ScanOnlyAtWindowStart ==
    (op = "scan" /\ InRange(before) /\ Leftmost # None
                 /\ Leftmost.val.start > 0)
        => /\ result = None
           /\ s.position = before.position
           /\ scan_until(before, pattern).ret.tag = "Some"

\* C2: after a successful scan or scan_until the position is the old
\* position plus the window-relative end of the leftmost match, which is
\* the absolute end of the recorded match, and scan_until returns the text
\* from the old position to the new one.
C2_PositionIsMatchEnd ==
    (op \in {"scan", "scan_until"} /\ result.tag = "Some")
        => /\ Leftmost # None
           /\ s.position = before.position + Leftmost.val.end
           /\ s.position = Base(s, s.matched.val) + s.matched.val.end
           /\ op = "scan_until"
                => result.val = Slice(before.string, before.position,
                                      s.position)

C2_Witness ==
    /\ op = "scan_until"
    /\ result.tag = "Some"
    /\ before.position > 0
    /\ s.matched.val.start > 0
    /\ s.position = before.position + 2

\* C3: check and check_until leave the position as it was, whether they
\* succeed, fail or panic.
C3_CheckKeepsPosition ==
    op \in {"check", "check_until"} => s.position = before.position

C3_Witness ==
    /\ op = "check_until"
    /\ result.tag = "Some"
    /\ before.position > 0
    /\ s.matched.val.end > 0
    /\ s.position = before.position

\* C4: when scan, scan_until, check, check_until or getch returns absent,
\* matched, pre_match and post_match are absent afterwards and the position
\* is the one before the call.
C4_FailureClearsMatch ==
    (op \in MatchOps \cup {"getch"} /\ result = None)
        => Absent(s) /\ s.position = before.position

C4_Witness ==
    /\ op \in MatchOps \cup {"getch"}
    /\ result = None
    /\ before.matched # None
    /\ before.position > 0

\* C5: set_position(p) with p <= length(string) leaves matched, pre_match
\* and post_match absent, also when p is the current position.
C5_SetPositionClearsMatch ==
    (op = "set_position" /\ arg <= Len(s.string)) => Absent(s)

C5_Witness ==
    /\ op = "set_position"
    /\ arg = before.position
    /\ before.matched # None
    /\ Absent(s)

\* C6: after a successful scan, scan_until, check or check_until,
\* pre_match + matched + post_match is the whole string, split at the
\* start and the end of the match.
C6_PreMatchedPostIsString ==
    (op \in MatchOps /\ result.tag = "Some")
        => /\ pre_match(s).tag = "Some"
           /\ matched(s).tag = "Some"
           /\ post_match(s).tag = "Some"
           /\ pre_match(s).val \o matched(s).val \o post_match(s).val
                  = s.string
           /\ Len(pre_match(s).val)
                  = Base(s, s.matched.val) + s.matched.val.start

\* C7: whenever there is a last match, pre_match is the string up to the
\* absolute start of that match.
C7_PreMatchIsPrefix ==
    s.matched # None
        => pre_match(s)
               = Some(Slice(s.string, 0,
                            Base(s, s.matched.val) + s.matched.val.start))

\* C8: check_until returns what scan_until returns from the same state.
C8_CheckUntilAsScanUntil ==
    op = "check_until" => result = scan_until(before, pattern).ret

\* C9: check returns what scan returns from the same state and leaves the
\* same match; the two differ in the position only, which check keeps.
C9_CheckAsScan ==
    op = "check"
        => /\ result = scan(before, pattern).ret
           /\ matched(s) = matched(scan(before, pattern).self)
           /\ s.position = before.position
           /\ s = [scan(before, pattern).self
                       EXCEPT !.position = before.position]

C9_Witness ==
    /\ op = "check"
    /\ result.tag = "Some"
    /\ before.position > 0
    /\ s.matched.val.start > 0
    /\ scan(before, pattern).self.position > s.position

\* C10: set_position(p) with p > length(string) fails with InvalidPosition
\* and leaves position and last match as they were.
C10_SetPositionRejectsOutOfRange ==
    (op = "set_position" /\ arg > Len(before.string))
        => /\ result = Err("InvalidPosition")
           /\ s.position = before.position
           /\ s.matched = before.matched

\* C11: in every reachable state the position lies within the string:
\* 0 <= position <= length(string).
C11_PositionInRange ==
    s.position >= 0 /\ s.position <= Len(s.string)

\* C12: on the empty string eos and terminate neither panic nor underflow,
\* and terminate leaves the position within the string.
C12_EmptyStringNoUnderflow ==
    (op \in {"eos", "terminate"} /\ Len(before.string) = 0)
        => /\ result # Panic
           /\ s.position <= Len(s.string)

\* The last call matched the empty text at the position it was entered at
EmptyMatchHere ==
    /\ InRange(before)
    /\ Leftmost # None
    /\ Leftmost.val.start = 0
    /\ Leftmost.val.end = 0

\* C13: a scan or scan_until whose pattern matches empty at the current
\* position returns the empty text, keeps the position and leaves matched()
\* empty; the same call from the state it leaves does the same again, so
\* any number of consecutive calls do.
C13_EmptyMatchRepeats ==
    (op \in {"scan", "scan_until"} /\ EmptyMatchHere)
        => /\ result = Some(<< >>)
           /\ s.position = before.position
           /\ matched(s) = Some(<< >>)
           /\ scan(s, pattern) = Returns(s, Some(<< >>))
           /\ scan_until(s, pattern) = Returns(s, Some(<< >>))

\* a zero-length scan that follows a zero-length match at the end of a
\* string with text before it
C13_Witness ==
    /\ op = "scan"
    /\ result = Some(<< >>)
    /\ before = s
    /\ before.matched # None
    /\ s.position = Len(s.string)
    /\ s.position > 0

\* C14: getch before the end of the string returns the one character at
\* the position and moves the position by one; at the end it returns absent
\* and keeps the position.
C14_GetchTakesOneCharacter ==
    (op = "getch" /\ InRange(before))
        => IF before.position < Len(before.string)
           THEN /\ result = Some(<<before.string[before.position + 1]>>)
                /\ s.position = before.position + 1
           ELSE /\ result = None
                /\ s.position = before.position

\* The text a start-anchored literal pattern ^X stands for
Anchored(pat) == Len(pat) > 1 /\ pat[1] = "^"

BeginsWith(text, x) ==
    Len(text) >= Len(x) /\ SubSeq(text, 1, Len(x)) = x

\* C16: scan and scan_until with ^X succeed exactly when the window begins
\* with X; the match then starts at the position, and both return X; when
\* the window does not begin with X both return absent, wherever else X
\* occurs in the string.
C16_CaretIsWindowStart ==
    (op \in {"scan", "scan_until"} /\ Anchored(pattern) /\ InRange(before))
        => LET x == Tail(pattern) IN
           IF BeginsWith(window(before), x)
           THEN /\ result = Some(x)
                /\ Base(s, s.matched.val) + s.matched.val.start
                       = before.position
                /\ scan(before, pattern).ret = result
                /\ scan_until(before, pattern).ret = result
           ELSE /\ result = None
                /\ scan(before, pattern).ret = None
                /\ scan_until(before, pattern).ret = None

\* ^X succeeds at a position after 0
C16_Witness ==
    /\ op = "scan_until"
    /\ Anchored(pattern)
    /\ before.position > 0
    /\ result = Some(Tail(pattern))

\* ^X fails although X is at offset 0 of the string and later in the window
C16_WitnessAbsent ==
    /\ op = "scan"
    /\ Anchored(pattern)
    /\ before.position > 0
    /\ result = None
    /\ BeginsWith(before.string, Tail(pattern))
    /\ \E k \in 1..Len(window(before)) :
           BeginsWith(Slice(window(before), k, Len(window(before))),
                      Tail(pattern))

\* C17: on a non-empty string eos is true exactly when the position is
\* length - 1, and terminate sets the position to length - 1 and clears the
\* last match, so that eos is true and the match queries are absent.
C17_EndIsLastOffset ==
    Len(before.string) > 0
        => /\ op = "eos"
                => result = Value(before.position = Len(before.string) - 1)
           /\ op = "terminate"
                => /\ result = Unit
                   /\ s.position = Len(s.string) - 1
                   /\ Absent(s)
                   /\ eos(s, TRUE) = Value(TRUE)
                   /\ eos(s, FALSE) = Value(TRUE)

C17_Witness ==
    /\ op = "terminate"
    /\ before.matched # None
    /\ before.position = Len(before.string)
    /\ s.position = Len(s.string) - 1

\* C18: at a position within the string beginning_of_line is true exactly
\* when the position is 0 or the character before it is the line feed, and
\* it changes neither position nor last match.
C18_BeginningOfLine ==
    (op \in {"beginning_of_line", "bol"} /\ InRange(before))
        => /\ result = Value(\/ before.position = 0
                             \/ before.string[before.position] = LF)
           /\ s = before

C18_Witness ==
    /\ op = "beginning_of_line"
    /\ before.position > 0
    /\ before.matched # None
    /\ result = Value(TRUE)

\* C19: no call other than set_position and terminate lowers the position.
C19_NoImplicitBacktrack ==
    op \notin {"new", "set_position", "terminate"}
        => s.position >= before.position

\* a scan that moved the position forward from a position after 0
C19_Witness ==
    /\ op = "scan_until"
    /\ before.position > 0
    /\ s.position > before.position

\* The scanner after n calls of getch
RECURSIVE GetchTimes(_, _)
GetchTimes(self, n) ==
    IF n = 0 THEN self ELSE GetchTimes(getch(self).self, n - 1)

\* C20: from a position p within the string at most length - p calls of
\* getch succeed before one returns absent; from then on every getch
\* returns absent and keeps the position; on the empty string every getch
\* returns absent.
C20_GetchTerminates ==
    InRange(s)
        => \E n \in 0..(Len(s.string) - s.position) :
              /\ \A m \in 0..(n - 1) :
                     /\ getch(GetchTimes(s, m)).ret.tag = "Some"
                     /\ GetchTimes(s, m + 1).position
                            > GetchTimes(s, m).position
              /\ \A m \in n..(Len(s.string) + 1) :
                     /\ getch(GetchTimes(s, m)).ret = None
                     /\ GetchTimes(s, m + 1).position
                            = GetchTimes(s, n).position

\* getch returned absent after having returned a character
C20_Witness ==
    /\ op = "getch"
    /\ result = None
    /\ before.matched # None
    /\ before.position = Len(before.string)
    /\ Len(s.string) > 1

\* The offset in the string of s at which the string of sub starts
Origin == Len(s.string) - Len(sub.val.string)

C15_State ==
    /\ (on = "s" /\ op = "subscan" /\ result # Panic)
          => /\ sub = result
             /\ sub.val.position = 0
             /\ sub.val.matched = None
             /\ s = before
             /\ \A n \in 0..(Len(s.string) + 1) :
                    getch(GetchTimes(sub.val, n)).ret
                        = getch(GetchTimes(s, n)).ret
    /\ (on = "sub" /\ op = "getch" /\ InRange(before))
          => result
                 = getch([s EXCEPT !.position = Origin + before.position]).ret

C15_Frame ==
    /\ on' = "sub" => s' = s
    /\ (on' = "s" /\ op' # "subscan") => sub' = sub
    /\ (on' = "s" /\ op' = "subscan") => s' = s

\* C15: the scanner subscan returns starts at position 0 with no last
\* match; its getch calls return what getch returns on the parent from the
\* parent's position at the time of subscan on; a call on the parent leaves
\* the derived scanner as it is, and subscan and the calls on the derived
\* scanner leave the parent as it is.
C15_SubscanIsSnapshot ==
    [] C15_State /\ [][C15_Frame]_vars

\* the second getch of a scanner derived at a position after 0, whose
\* parent has been moved back to 0 since
C15_Witness ==
    /\ on = "sub"
    /\ op = "getch"
    /\ result.tag = "Some"
    /\ before.position > 0
    /\ before.matched # None
    /\ Origin > 0
    /\ s.position = 0

====
